---- MODULE Spec2Model ----
(***************************************************************************)
(* Model of server.py: a store-and-forward relay for encrypted messages.   *)
(* Two SQLite tables (users, messages) guarded by one threading.Lock; the  *)
(* FastAPI endpoints run on worker threads and call the locked helpers     *)
(* user_exists, add_user, store_message and fetch_messages one after the   *)
(* other, releasing the lock between two helpers.                          *)
(***************************************************************************)
EXTENDS Integers, Sequences, FiniteSets, TLC

\* ------------------------------------------------------------------------
\* Bounds and input domains
\* ------------------------------------------------------------------------
\* Number of send requests that pass input validation in one behaviour; it
\* caps the AUTOINCREMENT counter of table messages.
MaxSends == 2

\* Worker threads of the server, each serving one request at a time.
Threads == {"t1", "t2"}

\* Usernames a client may submit; "" is the empty username.
Names == {"alice", "bob"}
Usernames == Names \cup {""}

\* Encrypted payloads a client may submit; "" is the empty payload.
Payloads == {"ct1", "ct2"}
Encrypteds == Payloads \cup {""}

\* Requests a client may submit.
RegisterRequests == {[op |-> "register", username |-> u] : u \in Usernames}
SendRequests ==
    {[op |-> "send", sender |-> "alice", recipient |-> "bob", encrypted |-> "ct1"],
     [op |-> "send", sender |-> "alice", recipient |-> "bob", encrypted |-> "ct2"],
     [op |-> "send", sender |-> "alice", recipient |-> "alice", encrypted |-> "ct2"],
     [op |-> "send", sender |-> "", recipient |-> "bob", encrypted |-> "ct1"],
     [op |-> "send", sender |-> "alice", recipient |-> "", encrypted |-> "ct1"],
     [op |-> "send", sender |-> "alice", recipient |-> "bob", encrypted |-> ""]}
FetchRequests == {[op |-> "fetch", recipient |-> r] : r \in Names}

\* In interf: a request that has ended and whose thread serves another one.
Gone == "gone"
NoReq == [op |-> "none"]
\* The value of lock when no thread holds it.
Free == "free"
NoResult == [status |-> 0, detail |-> "", body |-> <<>>]

VARIABLES
    users,      \* table users, in rowid order: seq of [username, created_at]
    messages,   \* table messages, in rowid order: seq of [id, sender, recipient, encrypted, timestamp]
    seq,        \* sqlite_sequence entry of messages: largest id ever assigned
    stale,      \* a connection abandoned by a failed insert holds the write lock of the file
    lock,       \* threading.Lock: Free, or the thread that holds it
    pc,         \* position of each worker thread in its endpoint
    req,        \* request each worker thread is serving
    rows,       \* rows that fetch_messages / all_users returned to the endpoint
    result,     \* HTTP response of the request: [status, detail, body]
    snap,       \* history: ids pending for the recipient when a fetch request started
    afterOk,    \* history: a register request started after a successful register of its username
    interf,     \* history: threads that ran add_user, store_message or fetch_messages on
                \* the resource of a thread's request while that request ran
    regOk,      \* history: number of successful register responses per username
    sentLog,    \* history: per recipient, successful sends since the last fetch of that recipient
    ledger      \* history: per message ever stored, its id and how many fetches returned it

histVars == <<snap, afterOk, interf, regOk, sentLog, ledger>>
vars == <<users, messages, seq, stale, lock, pc, req, rows, result,
          snap, afterOk, interf, regOk, sentLog, ledger>>

\* ------------------------------------------------------------------------
\* Helpers on sequences
\* ------------------------------------------------------------------------
Range(s) == {s[i] : i \in DOMAIN s}

Ids(rs) == {rs[i].id : i \in DOMAIN rs}

\* ------------------------------------------------------------------------
\* SQL statements
\* ------------------------------------------------------------------------
\* datetime.utcnow(), as a logical clock: the number of rows inserted so far.
utcnow(us, s) == Len(us) + s

\* Variant of user_exists that finds no row at all.
user_exists_Never(us, username) == FALSE

\* SELECT 1 FROM users WHERE username = ?  ... fetchone() is not None
user_exists(us, username) == \E i \in DOMAIN us : us[i].username = username

\* Variant of the users table without the PRIMARY KEY constraint.
InsertUserFails_NoKey(us, username) == FALSE

\* INSERT INTO users(username, created_at): username is the PRIMARY KEY, so
\* the insert raises sqlite3.IntegrityError when the username is present.
InsertUserFails(us, username) == username \in {us[i].username : i \in DOMAIN us}

\* Variant of the insert that replaces the content of the table.
InsertUser_Replace(us, username, now) ==
    <<[username |-> username, created_at |-> now]>>

InsertUser(us, username, now) ==
    Append(us, [username |-> username, created_at |-> now])

\* Variant of the id column without AUTOINCREMENT: one more than the largest
\* id in the table.
NextId_MaxRowid(ms, s) ==
    IF ms = <<>> THEN 1
    ELSE 1 + CHOOSE m \in Ids(ms) : \A k \in Ids(ms) : k <= m

\* id INTEGER PRIMARY KEY AUTOINCREMENT: one more than the largest id ever used.
NextId(ms, s) == s + 1

\* INSERT INTO messages(sender, recipient, encrypted, timestamp)
InsertMessage(ms, s, sender, recipient, encrypted, now) ==
    Append(ms, [id |-> NextId(ms, s), sender |-> sender, recipient |-> recipient,
                encrypted |-> encrypted, timestamp |-> now])

\* Variant of the select without its WHERE clause.
SelectByRecipient_NoWhere(ms, recipient) == ms

\* Variant of the select that scans the table from the newest row to the oldest.
SelectByRecipient_Desc(ms, recipient) ==
    LET sel == SelectSeq(ms, LAMBDA m : m.recipient = recipient)
    IN  [i \in 1..Len(sel) |-> sel[Len(sel) + 1 - i]]

\* SELECT id, sender, encrypted, timestamp FROM messages WHERE recipient = ?
\* (a scan of the table in rowid order)
SelectByRecipient(ms, recipient) ==
    SelectSeq(ms, LAMBDA m : m.recipient = recipient)

\* Variant of the delete that removes nothing.
DeleteIds_KeepAll(ms, ids) == ms

\* DELETE FROM messages WHERE id IN (ids), executed only when ids is not empty
DeleteIds(ms, ids) == SelectSeq(ms, LAMBDA m : m.id \notin ids)

\* Variant of the select on users that misses the row inserted last.
SelectUsers_Partial(us) == IF us = <<>> THEN us ELSE SubSeq(us, 1, Len(us) - 1)

\* SELECT username, created_at FROM users (a scan of the table in rowid order)
SelectUsers(us) == us

\* [{"username": r[0], "created_at": r[1]} for r in rows]
UsersBody(rs) ==
    [i \in DOMAIN rs |-> [username |-> rs[i].username, created_at |-> rs[i].created_at]]

\* [{"sender": r[1], "encrypted": r[2], "timestamp": r[3]} for r in rows]
MessagesBody(rs) ==
    [i \in DOMAIN rs |-> [sender |-> rs[i].sender, encrypted |-> rs[i].encrypted,
                          timestamp |-> rs[i].timestamp]]

\* ------------------------------------------------------------------------
\* HTTP responses
\* ------------------------------------------------------------------------
Ok(body) == [status |-> 200, detail |-> "ok", body |-> body]
BadRequest(detail) == [status |-> 400, detail |-> detail, body |-> <<>>]
\* An exception that is no HTTPException: FastAPI answers 500.
InternalError == [status |-> 500, detail |-> "Internal Server Error", body |-> <<>>]

\* The reason code of section 7 of the specification a response carries.
Reason(r) ==
    CASE r.status = 200 -> "Ok"
      [] r.detail = "Username required" -> "InvalidInput"
      [] r.detail = "All fields are required" -> "InvalidInput"
      [] r.detail = "Username already exists" -> "AlreadyExists"
      [] r.detail = "Recipient does not exist" -> "RecipientUnknown"
      [] r.detail = "Sender or recipient does not exist" -> "SenderOrRecipientUnknown"
      [] r.detail = "Internal Server Error" -> "InternalError"
      [] OTHER -> "None"

\* ------------------------------------------------------------------------
\* History bookkeeping
\* ------------------------------------------------------------------------
Active(t) == pc[t] \notin {"idle", "done"}

\* The resource a request works on: a username of the registry or a mailbox.
Target(r) ==
    CASE r.op = "register" -> <<"user", r.username>>
      [] r.op \in {"send", "fetch"} -> <<"mailbox", r.recipient>>
      [] OTHER -> <<"none", "">>

\* Thread u runs add_user, store_message or fetch_messages on resource key:
\* every other running request on key notes it.
Touch(u, key) ==
    [t \in Threads |->
        IF t # u /\ Active(t) /\ Target(req[t]) = key
        THEN interf[t] \cup {u} ELSE interf[t]]

Pending(ms, recipient) == Ids(SelectByRecipient(ms, recipient))

\* ------------------------------------------------------------------------
\* Initial state: init_db() has created two empty tables
\* ------------------------------------------------------------------------
Init ==
    /\ users = <<>>
    /\ messages = <<>>
    /\ seq = 0
    /\ stale = FALSE
    /\ lock = Free
    /\ pc = [t \in Threads |-> "idle"]
    /\ req = [t \in Threads |-> NoReq]
    /\ rows = [t \in Threads |-> <<>>]
    /\ result = [t \in Threads |-> NoResult]
    /\ snap = [t \in Threads |-> {}]
    /\ afterOk = [t \in Threads |-> FALSE]
    /\ interf = [t \in Threads |-> {}]
    /\ regOk = [u \in Names |-> 0]
    /\ sentLog = [u \in Names |-> <<>>]
    /\ ledger = <<>>

\* ------------------------------------------------------------------------
\* A request arrives on a free worker thread. The response of a finished
\* request stays visible until the next request arrives at the server: two
\* responses are visible together only when their requests overlapped.
\* ------------------------------------------------------------------------
Delivered(u) == pc[u] = "done"

Begin(t, r, first) ==
    /\ pc[t] \in {"idle", "done"}
    /\ pc' = [u \in Threads |->
                IF u = t THEN first ELSE IF Delivered(u) THEN "idle" ELSE pc[u]]
    /\ req' = [u \in Threads |->
                 IF u = t THEN r ELSE IF Delivered(u) THEN NoReq ELSE req[u]]
    /\ rows' = [u \in Threads |->
                  IF u = t \/ Delivered(u) THEN <<>> ELSE rows[u]]
    /\ result' = [u \in Threads |->
                    IF u = t
                    THEN (IF first # "done" THEN NoResult
                          ELSE IF r.op = "register" THEN BadRequest("Username required")
                          ELSE BadRequest("All fields are required"))
                    ELSE IF Delivered(u) THEN NoResult ELSE result[u]]
    /\ interf' = [u \in Threads |->
                    IF u = t \/ Delivered(u) THEN {}
                    ELSE IF t \in interf[u] THEN (interf[u] \ {t}) \cup {Gone}
                    ELSE interf[u]]
    /\ snap' = [u \in Threads |->
                  IF u = t
                  THEN (IF r.op = "fetch" THEN Pending(messages, r.recipient) ELSE {})
                  ELSE IF Delivered(u) THEN {} ELSE snap[u]]
    /\ afterOk' = [u \in Threads |->
                     IF u = t
                     THEN r.op = "register" /\ r.username \in Names /\ regOk[r.username] > 0
                     ELSE IF Delivered(u) THEN FALSE ELSE afterOk[u]]
    /\ UNCHANGED <<users, messages, seq, stale, lock, regOk, sentLog, ledger>>

\* Send requests that passed input validation and have not ended, plus the
\* messages stored so far.
SendsAdmitted ==
    seq + Cardinality({t \in Threads :
                         pc[t] \in {"send_exists_s", "send_exists_r", "send_store"}})

\* Variant of register without the check for the empty username.
Register_NoValidation(t) ==
    \E r \in RegisterRequests : Begin(t, r, "reg_exists")

\* POST /register: if not user.username: raise HTTPException(400)
Register(t) ==
    \E r \in RegisterRequests :
        Begin(t, r, IF r.username = "" THEN "done" ELSE "reg_exists")

\* Variant of send_message_endpoint without the check for empty fields.
SendMessage_NoValidation(t) ==
    \E r \in SendRequests :
        SendsAdmitted < MaxSends /\ Begin(t, r, "send_exists_s")

\* POST /send_message: if not (sender and recipient and encrypted): raise 400
SendMessage(t) ==
    \E r \in SendRequests :
        IF r.sender = "" \/ r.recipient = "" \/ r.encrypted = ""
        THEN Begin(t, r, "done")
        ELSE SendsAdmitted < MaxSends /\ Begin(t, r, "send_exists_s")

\* GET /get_messages/{recipient}
GetMessages(t) ==
    \E r \in FetchRequests : Begin(t, r, "get_exists")

\* GET /all_users
AllUsers(t) == Begin(t, [op |-> "list"], "list")

\* ------------------------------------------------------------------------
\* The locked helpers. Every helper runs inside "with lock:", and no statement
\* outside a helper reads or writes the database, so the body of a helper is
\* one atomic step; between two helpers of a request other threads may run.
\* ------------------------------------------------------------------------
\* Variant of the with statement that keeps the lock when its body raises.
Release_NotOnError(t, raised) == IF raised THEN t ELSE Free

\* The exit of "with lock:" releases the lock, whether or not the body raised.
Release(t, raised) == Free

\* "with lock:" around the body of a helper of thread t: the helper waits
\* until the lock is free, and leaves it as the exit of the with statement does.
WithLock(t, raised) ==
    /\ lock = Free
    /\ lock' = Release(t, raised)

Finish(t, res) ==
    /\ pc' = [pc EXCEPT ![t] = "done"]
    /\ result' = [result EXCEPT ![t] = res]

Goto(t, next) ==
    /\ pc' = [pc EXCEPT ![t] = next]
    /\ UNCHANGED result

\* ------------------------------------------------------------------------
\* register: user_exists(user.username), then add_user(user.username)
\* ------------------------------------------------------------------------
RegisterUserExists(t) ==
    /\ pc[t] = "reg_exists"
    /\ IF user_exists(users, req[t].username)
       THEN Finish(t, BadRequest("Username already exists"))
       ELSE Goto(t, "reg_add")
    /\ WithLock(t, FALSE)
    /\ UNCHANGED <<users, messages, seq, stale, req, rows>>
    /\ UNCHANGED histVars

\* add_user. The insert of a present username raises IntegrityError before
\* conn.commit() and conn.close(): the connection is abandoned inside its open
\* write transaction. While such a connection lives, every insert or delete
\* of another connection raises OperationalError (database is locked).
AddUser(t) ==
    /\ pc[t] = "reg_add"
    /\ WithLock(t, stale \/ InsertUserFails(users, req[t].username))
    /\ IF stale
       THEN /\ Finish(t, InternalError)
            /\ UNCHANGED <<users, stale, regOk>>
       ELSE IF InsertUserFails(users, req[t].username)
       THEN /\ Finish(t, InternalError)
            /\ stale' = TRUE
            /\ UNCHANGED <<users, regOk>>
       ELSE /\ users' = InsertUser(users, req[t].username, utcnow(users, seq))
            /\ Finish(t, Ok(<<>>))
            /\ regOk' = [regOk EXCEPT ![req[t].username] = @ + 1]
            /\ UNCHANGED stale
    /\ interf' = Touch(t, Target(req[t]))
    /\ UNCHANGED <<messages, seq, req, rows, snap, afterOk, sentLog, ledger>>

\* The garbage collector frees an abandoned connection, which rolls its
\* transaction back and releases the write lock of the file.
CollectGarbage ==
    /\ stale
    /\ stale' = FALSE
    /\ UNCHANGED <<users, messages, seq, lock, pc, req, rows, result>>
    /\ UNCHANGED histVars

\* ------------------------------------------------------------------------
\* send_message: not user_exists(sender) or not user_exists(recipient),
\* then store_message
\* ------------------------------------------------------------------------
\* Variant of send_message_endpoint that does not check the sender.
SendUserExistsSender_Skip(t) ==
    /\ pc[t] = "send_exists_s"
    /\ Goto(t, "send_exists_r")
    /\ WithLock(t, FALSE)
    /\ UNCHANGED <<users, messages, seq, stale, req, rows>>
    /\ UNCHANGED histVars

SendUserExistsSender(t) ==
    /\ pc[t] = "send_exists_s"
    /\ IF user_exists(users, req[t].sender)
       THEN Goto(t, "send_exists_r")
       ELSE Finish(t, BadRequest("Sender or recipient does not exist"))
    /\ WithLock(t, FALSE)
    /\ UNCHANGED <<users, messages, seq, stale, req, rows>>
    /\ UNCHANGED histVars

\* Variant of send_message_endpoint that does not check the recipient.
SendUserExistsRecipient_Skip(t) ==
    /\ pc[t] = "send_exists_r"
    /\ Goto(t, "send_store")
    /\ WithLock(t, FALSE)
    /\ UNCHANGED <<users, messages, seq, stale, req, rows>>
    /\ UNCHANGED histVars

SendUserExistsRecipient(t) ==
    /\ pc[t] = "send_exists_r"
    /\ IF user_exists(users, req[t].recipient)
       THEN Goto(t, "send_store")
       ELSE Finish(t, BadRequest("Sender or recipient does not exist"))
    /\ WithLock(t, FALSE)
    /\ UNCHANGED <<users, messages, seq, stale, req, rows>>
    /\ UNCHANGED histVars

StoreMessage(t) ==
    /\ pc[t] = "send_store"
    /\ WithLock(t, stale)
    /\ IF stale
       THEN /\ Finish(t, InternalError)
            /\ UNCHANGED <<messages, seq, sentLog, ledger>>
       ELSE /\ messages' = InsertMessage(messages, seq, req[t].sender, req[t].recipient,
                                         req[t].encrypted, utcnow(users, seq))
            /\ seq' = NextId(messages, seq)
            /\ Finish(t, Ok(<<>>))
            /\ sentLog' = [sentLog EXCEPT ![req[t].recipient] =
                             Append(@, [sender |-> req[t].sender,
                                        encrypted |-> req[t].encrypted])]
            /\ ledger' = Append(ledger, [id |-> NextId(messages, seq), got |-> 0])
    /\ interf' = Touch(t, Target(req[t]))
    /\ UNCHANGED <<users, stale, req, rows, snap, afterOk, regOk>>

\* ------------------------------------------------------------------------
\* get_messages: user_exists(recipient), then fetch_messages(recipient)
\* ------------------------------------------------------------------------
\* Variant of get_messages_endpoint that does not check the recipient.
GetUserExists_Skip(t) ==
    /\ pc[t] = "get_exists"
    /\ Goto(t, "get_fetch")
    /\ WithLock(t, FALSE)
    /\ UNCHANGED <<users, messages, seq, stale, req, rows>>
    /\ UNCHANGED histVars

GetUserExists(t) ==
    /\ pc[t] = "get_exists"
    /\ IF user_exists(users, req[t].recipient)
       THEN Goto(t, "get_fetch")
       ELSE Finish(t, BadRequest("Recipient does not exist"))
    /\ WithLock(t, FALSE)
    /\ UNCHANGED <<users, messages, seq, stale, req, rows>>
    /\ UNCHANGED histVars

FetchMessages(t) ==
    LET selected == SelectByRecipient(messages, req[t].recipient)
        ids == Ids(selected)
    IN  /\ pc[t] = "get_fetch"
        /\ WithLock(t, ids # {} /\ stale)
        /\ IF ids # {} /\ stale
           THEN \* the DELETE raises OperationalError: nothing is returned
                /\ Finish(t, InternalError)
                /\ UNCHANGED <<messages, rows, sentLog, ledger>>
           ELSE /\ rows' = [rows EXCEPT ![t] = selected]
                /\ messages' = IF ids # {} THEN DeleteIds(messages, ids) ELSE messages
                /\ Finish(t, Ok(MessagesBody(selected)))
                /\ sentLog' = [sentLog EXCEPT ![req[t].recipient] = <<>>]
                /\ ledger' = [i \in DOMAIN ledger |->
                                IF ledger[i].id \in ids
                                THEN [ledger[i] EXCEPT !.got = @ + 1] ELSE ledger[i]]
        /\ interf' = Touch(t, Target(req[t]))
        /\ UNCHANGED <<users, seq, stale, req, snap, afterOk, regOk>>

\* ------------------------------------------------------------------------
\* all_users: SELECT username, created_at FROM users
\* ------------------------------------------------------------------------
AllUsersSelect(t) ==
    /\ pc[t] = "list"
    /\ WithLock(t, FALSE)
    /\ rows' = [rows EXCEPT ![t] = SelectUsers(users)]
    /\ Finish(t, Ok(UsersBody(SelectUsers(users))))
    /\ UNCHANGED <<users, messages, seq, stale, req>>
    /\ UNCHANGED histVars

\* The locked helpers of the running request of thread t.
HelperStep(t) ==
    \/ RegisterUserExists(t)
    \/ AddUser(t)
    \/ SendUserExistsSender(t)
    \/ SendUserExistsRecipient(t)
    \/ StoreMessage(t)
    \/ GetUserExists(t)
    \/ FetchMessages(t)
    \/ AllUsersSelect(t)

ThreadStep(t) ==
    \/ Register(t)
    \/ SendMessage(t)
    \/ GetMessages(t)
    \/ AllUsers(t)
    \/ RegisterUserExists(t)
    \/ AddUser(t)
    \/ SendUserExistsSender(t)
    \/ SendUserExistsRecipient(t)
    \/ StoreMessage(t)
    \/ GetUserExists(t)
    \/ FetchMessages(t)
    \/ AllUsersSelect(t)

Next ==
    \/ \E t \in Threads : ThreadStep(t)
    \/ CollectGarbage

Spec == Init /\ [][Next]_vars

\* Fair scheduling of the worker threads: a thread whose next helper can run
\* (the lock is free) eventually runs it.
FairSpec == Spec /\ \A t \in Threads : WF_vars(HelperStep(t))

\* ------------------------------------------------------------------------
\* Vocabulary of the properties
\* ------------------------------------------------------------------------
Done(t, op) == pc[t] = "done" /\ req[t].op = op

\* Thread t has answered a fetch request with its messages.
FetchedOk(t) == Done(t, "fetch") /\ result[t].status = 200

\* Thread t has answered a send request whose three fields were not empty.
SentNonEmpty(t) ==
    /\ Done(t, "send")
    /\ req[t].sender # "" /\ req[t].recipient # "" /\ req[t].encrypted # ""

\* This step is a locked helper of the running request of thread t.
Step(t) == Active(t) /\ pc'[t] # pc[t]

\* This step is the locked helper fetch_messages of thread t.
FetchStep(t) == pc[t] = "get_fetch" /\ pc'[t] = "done"

StrictlyAscending(rs) ==
    \A i \in DOMAIN rs : \A j \in DOMAIN rs : i < j => rs[i].id < rs[j].id

SenderAndPayload(rs) ==
    [i \in DOMAIN rs |-> [sender |-> rs[i].sender, encrypted |-> rs[i].encrypted]]

\* ------------------------------------------------------------------------
\* C1 (as stated): two fetch requests for the same registered recipient that
\* ran concurrently, with no other request working on that mailbox while
\* either ran, return disjoint sets of messages whose union is exactly the set
\* that was pending for the recipient when they started.
\* ------------------------------------------------------------------------
\* t1 and t2 have answered fetch requests for the same registered recipient;
\* t1 ran fetch_messages while the request of t2 was running, and no other
\* helper ran on the mailbox during either request.
ConcurrentFetches(t1, t2) ==
    /\ t1 # t2
    /\ Done(t1, "fetch") /\ Done(t2, "fetch")
    /\ req[t1].recipient = req[t2].recipient
    /\ result[t1].status # 400 /\ result[t2].status # 400
    /\ interf[t1] = {}
    /\ interf[t2] = {t1}

C1_ConcurrentFetchesPartition ==
    \A t1 \in Threads : \A t2 \in Threads :
        ConcurrentFetches(t1, t2) =>
            /\ snap[t1] = snap[t2]
            /\ Ids(rows[t1]) \cup Ids(rows[t2]) = snap[t2]
            /\ Ids(rows[t1]) \cap Ids(rows[t2]) = {}

\* The same, for two fetch requests that were both answered with messages.
C1_WhenBothReturn ==
    \A t1 \in Threads : \A t2 \in Threads :
        (ConcurrentFetches(t1, t2) /\ FetchedOk(t1) /\ FetchedOk(t2)) =>
            /\ snap[t1] = snap[t2]
            /\ Ids(rows[t1]) \cup Ids(rows[t2]) = snap[t2]
            /\ Ids(rows[t1]) \cap Ids(rows[t2]) = {}

\* ------------------------------------------------------------------------
\* C2 (as stated): a fetch returns exactly the messages successfully sent to
\* its recipient since the previous fetch of that recipient, in send order,
\* with sender and payload as submitted, and leaves nothing pending for the
\* recipient; so a fetch that follows with no send in between returns the
\* empty sequence.
\* ------------------------------------------------------------------------
C2_FetchReturnsSendsInOrder ==
    [][\A t \in Threads :
          FetchStep(t) =>
              /\ SenderAndPayload(rows'[t]) = sentLog[req[t].recipient]
              /\ SenderAndPayload(result'[t].body) = sentLog[req[t].recipient]
              /\ Pending(messages', req[t].recipient) = {}]_vars

\* The same, for the fetch requests that are answered with messages.
C2_WhenFetchReturns ==
    [][\A t \in Threads :
          (FetchStep(t) /\ result'[t].status = 200) =>
              /\ SenderAndPayload(rows'[t]) = sentLog[req[t].recipient]
              /\ SenderAndPayload(result'[t].body) = sentLog[req[t].recipient]
              /\ Pending(messages', req[t].recipient) = {}]_vars

\* ------------------------------------------------------------------------
\* C3 (as stated): of two register requests for the same username that ran
\* concurrently and both started before it was registered, with no third
\* request registering it, one succeeds and the other fails with AlreadyExists.
\* ------------------------------------------------------------------------
\* t1 and t2 have answered register requests for the same non-empty username,
\* neither started after a successful register of it, add_user of one ran
\* while the other request was running, and no third request ran add_user on
\* the username during either.
RacingRegisters(t1, t2) ==
    /\ t1 # t2
    /\ Done(t1, "register") /\ Done(t2, "register")
    /\ req[t1].username # "" /\ req[t1].username = req[t2].username
    /\ ~afterOk[t1] /\ ~afterOk[t2]
    /\ interf[t1] \subseteq {t2} /\ interf[t2] \subseteq {t1}
    /\ interf[t1] \cup interf[t2] # {}

C3_OneSuccessOneAlreadyExists ==
    \A t1 \in Threads : \A t2 \in Threads :
        RacingRegisters(t1, t2) =>
            {Reason(result[t1]), Reason(result[t2])} = {"Ok", "AlreadyExists"}

\* ------------------------------------------------------------------------
\* C4: the users table never holds two rows with the same username, and no
\* username is ever answered with a successful register twice.
\* ------------------------------------------------------------------------
C4_UsernamesUnique ==
    /\ \A i \in DOMAIN users : \A j \in DOMAIN users :
           users[i].username = users[j].username => i = j
    /\ \A u \in Names : regOk[u] <= 1

C4_Witness ==
    \E t1 \in Threads : \E t2 \in Threads :
        /\ RacingRegisters(t1, t2)
        /\ result[t1].status = 200 /\ result[t2].status # 200
        /\ Len(users) = 2

\* ------------------------------------------------------------------------
\* C5: a register request that starts after a successful register of the
\* same username never changes the users table and ends with AlreadyExists.
\* ------------------------------------------------------------------------
C5_LaterRegisterFails ==
    [][\A t \in Threads :
          (Step(t) /\ req[t].op = "register" /\ afterOk[t]) =>
              /\ users' = users
              /\ pc'[t] = "done" => Reason(result'[t]) = "AlreadyExists"]_vars

C5_Witness ==
    \E t \in Threads :
        /\ Done(t, "register") /\ afterOk[t]
        /\ Reason(result[t]) = "AlreadyExists"
        /\ user_exists(users, req[t].username)

\* ------------------------------------------------------------------------
\* C6: a send request with non-empty fields whose sender or recipient is not
\* registered when it ends is rejected, and a send request that is not
\* answered with success never changes the messages table.
\* ------------------------------------------------------------------------
C6_UnknownPartyRejected ==
    [][\A t \in Threads :
          (Step(t) /\ req[t].op = "send") =>
              /\ (/\ pc'[t] = "done"
                  /\ \/ ~user_exists(users, req[t].sender)
                     \/ ~user_exists(users, req[t].recipient))
                 => result'[t].status = 400
              /\ ~(pc'[t] = "done" /\ result'[t].status = 200)
                 => (messages' = messages /\ seq' = seq)]_vars

C6_Witness ==
    \E t \in Threads :
        /\ SentNonEmpty(t)
        /\ result[t].status = 400
        /\ user_exists(users, req[t].sender)
        /\ ~user_exists(users, req[t].recipient)
        /\ messages # <<>>

\* ------------------------------------------------------------------------
\* C7 (as stated): a send rejected for an unknown party carries the reason
\* SenderUnknown when the sender is not registered and RecipientUnknown when
\* the recipient is not registered, two distinct reasons.
\* ------------------------------------------------------------------------
C7_ReasonNamesUnknownParty ==
    [][\A t \in Threads :
          (/\ Step(t) /\ req[t].op = "send"
           /\ pc'[t] = "done" /\ result'[t].status = 400) =>
              LET s == user_exists(users, req[t].sender)
                  r == user_exists(users, req[t].recipient)
              IN  /\ Reason(result'[t]) \in {"SenderUnknown", "RecipientUnknown"}
                  /\ (~s /\ r) => Reason(result'[t]) = "SenderUnknown"
                  /\ (s /\ ~r) => Reason(result'[t]) = "RecipientUnknown"]_vars

\* ------------------------------------------------------------------------
\* C8: the rows a fetch returns are in strictly ascending order of id.
\* ------------------------------------------------------------------------
C8_FetchAscendingIds ==
    \A t \in Threads : FetchedOk(t) => StrictlyAscending(rows[t])

\* Two messages were fetched, and a request of the fetching thread changed the
\* mailbox while the other thread's send to it was running.
C8_Witness ==
    \E t \in Threads : \E u \in Threads :
        /\ t # u
        /\ FetchedOk(t) /\ Len(rows[t]) = 2
        /\ Done(u, "send") /\ result[u].status = 200
        /\ req[u].recipient = req[t].recipient
        /\ Gone \in interf[u]

\* ------------------------------------------------------------------------
\* C9 (as stated): no stored message is ever lost: it is pending or was
\* returned by a fetch; the next fetch of a recipient returns every message
\* pending for the recipient, among them a message a concurrent send stored
\* after the selection of the previous fetch, and deletes no message it does
\* not return.
\* ------------------------------------------------------------------------
NoLoss ==
    \A i \in DOMAIN ledger :
        ledger[i].got > 0 \/ ledger[i].id \in Ids(messages)

ReturnsAllPending(t) ==
    \A i \in DOMAIN messages :
        messages[i].recipient = req[t].recipient => messages[i] \in Range(rows'[t])

DeletesOnlyReturned(t) ==
    \A i \in DOMAIN messages :
        messages[i] \notin Range(rows'[t]) => messages[i] \in Range(messages')

C9_SendDuringFetchNotLost ==
    [][/\ NoLoss'
       /\ \A t \in Threads :
             FetchStep(t) => (ReturnsAllPending(t) /\ DeletesOnlyReturned(t))]_vars

\* The same, where only a fetch that is answered with messages has to return
\* the pending ones.
C9_WhenFetchReturns ==
    [][/\ NoLoss'
       /\ \A t \in Threads :
             FetchStep(t) =>
                 /\ result'[t].status = 200 => ReturnsAllPending(t)
                 /\ DeletesOnlyReturned(t)]_vars

\* ------------------------------------------------------------------------
\* C10: a fetch request whose recipient is not registered changes neither
\* table, and its existence check ends it with RecipientUnknown and no
\* messages.
\* ------------------------------------------------------------------------
C10_FetchUnknownRecipient ==
    [][\A t \in Threads :
          (/\ Step(t) /\ req[t].op = "fetch"
           /\ ~user_exists(users, req[t].recipient)) =>
              /\ users' = users /\ messages' = messages
              /\ pc'[t] = "done"
              /\ Reason(result'[t]) = "RecipientUnknown"
              /\ result'[t].body = <<>> /\ rows'[t] = <<>>]_vars

C10_Witness ==
    \E t \in Threads :
        /\ Done(t, "fetch")
        /\ Reason(result[t]) = "RecipientUnknown"
        /\ ~user_exists(users, req[t].recipient)
        /\ rows[t] = <<>>
        /\ users # <<>> /\ messages # <<>>

\* ------------------------------------------------------------------------
\* C11: a send request with an empty sender, recipient or payload is answered
\* with InvalidInput in the step in which it arrives, before any existence
\* check and whoever is registered, and that step changes neither the
\* messages table nor the id counter.
\* ------------------------------------------------------------------------
\* This step is the arrival of a send request on the free thread t: no other
\* thread runs a helper in it.
SendArrives(t) ==
    /\ pc[t] \in {"idle", "done"} /\ pc'[t] # "idle" /\ req'[t].op = "send"
    /\ \A u \in Threads \ {t} : ~Step(u)

EmptyField(r) == r.sender = "" \/ r.recipient = "" \/ r.encrypted = ""

C11_EmptyFieldRejected ==
    [][\A t \in Threads :
          (SendArrives(t) /\ EmptyField(req'[t])) =>
              /\ pc'[t] = "done"
              /\ Reason(result'[t]) = "InvalidInput"
              /\ messages' = messages /\ seq' = seq]_vars

\* An empty payload was rejected although sender and recipient are registered
\* and messages are pending.
C11_Witness ==
    \E t \in Threads :
        /\ Done(t, "send") /\ req[t].encrypted = ""
        /\ Reason(result[t]) = "InvalidInput"
        /\ user_exists(users, req[t].sender)
        /\ user_exists(users, req[t].recipient)
        /\ messages # <<>>

\* ------------------------------------------------------------------------
\* C12: a register request with the empty username is answered with
\* InvalidInput as soon as it arrives, and the users table never holds a row
\* with the empty username.
\* ------------------------------------------------------------------------
C12_EmptyUsernameRejected ==
    /\ \A t \in Threads :
           (req[t].op = "register" /\ req[t].username = "") =>
               (pc[t] = "done" /\ Reason(result[t]) = "InvalidInput")
    /\ ~user_exists(users, "")

C12_Witness ==
    \E t \in Threads :
        /\ Done(t, "register") /\ req[t].username = ""
        /\ Reason(result[t]) = "InvalidInput"
        /\ Len(users) = 2

\* ------------------------------------------------------------------------
\* C13: over the whole history of the store, every stored message got an id
\* strictly greater than the id of every message stored before it, whether
\* the earlier message is still in the table or was deleted by a fetch; so
\* no id is used twice.
\* ------------------------------------------------------------------------
C13_IdsStrictlyIncreasing ==
    /\ \A i \in DOMAIN ledger : \A j \in DOMAIN ledger :
           i < j => ledger[i].id < ledger[j].id
    /\ \A i \in DOMAIN messages : \A j \in DOMAIN messages :
           i < j => messages[i].id < messages[j].id
    /\ Ids(messages) \subseteq Ids(ledger)

\* Every message went to alice; message 1 was fetched and deleted, and the
\* message stored after that fetch got id 2.
C13_Witness ==
    /\ ~user_exists(users, "bob")
    /\ Len(ledger) = 2
    /\ ledger[1].got = 1
    /\ Ids(messages) = {2}

\* ------------------------------------------------------------------------
\* C14: under fair scheduling every request that has started is eventually
\* answered, and no helper leaves the lock held when it ends, whether it
\* returned or raised.
\* ------------------------------------------------------------------------
C14_EveryRequestCompletes ==
    /\ [](lock = Free)
    /\ \A t \in Threads : Active(t) ~> ~Active(t)

\* A register request was answered with an internal error by add_user (its
\* insert raised), the lock is free, and the other thread is running a request.
C14_Witness ==
    \E t \in Threads : \E u \in Threads :
        /\ Done(t, "register") /\ Reason(result[t]) = "InternalError"
        /\ stale
        /\ lock = Free
        /\ Active(u)

\* ------------------------------------------------------------------------
\* C15: the rows all_users returns are the whole users table as it is at the
\* instant of its select, which lies between the arrival of the request and
\* its answer; every entry of the answer carries the username and created_at
\* of a row whose register request succeeded.
\* ------------------------------------------------------------------------
\* This step is the locked helper all_users of thread t.
ListStep(t) == pc[t] = "list" /\ pc'[t] = "done"

C15_ListSeesWholeRegistry ==
    [][\A t \in Threads :
          ListStep(t) =>
              /\ users' = users
              /\ rows'[t] = users
              /\ result'[t].status = 200
              /\ result'[t].body = users
              /\ \A i \in DOMAIN result'[t].body :
                     /\ DOMAIN result'[t].body[i] = {"username", "created_at"}
                     /\ regOk[result'[t].body[i].username] = 1]_vars

\* A list request ran while a register request of the other thread was
\* running: it returned the one row present before that request inserted the
\* second.
C15_Witness ==
    \E t \in Threads : \E u \in Threads :
        /\ Done(t, "list") /\ Len(rows[t]) = 1
        /\ Done(u, "register") /\ result[u].status = 200
        /\ Len(users) = 2

\* ------------------------------------------------------------------------
\* C16: no step deletes or changes a row of the users table: every row keeps
\* its place, username and created_at, so a registered username stays
\* registered.
\* ------------------------------------------------------------------------
C16_RegistryOnlyGrows ==
    [][/\ \A i \in DOMAIN users : i \in DOMAIN users' /\ users'[i] = users[i]
       /\ \A u \in Names : user_exists(users, u) => user_exists(users', u)]_vars

\* Two users are registered, the first at time 0; since then an insert into
\* users has failed, and a message was stored and fetched.
C16_Witness ==
    /\ Len(users) = 2 /\ users[1].created_at = 0
    /\ stale
    /\ \E i \in DOMAIN ledger : ledger[i].got = 1

\* ------------------------------------------------------------------------
\* C17: in every state, the sender and the recipient of every row of the
\* messages table are rows of the users table.
\* ------------------------------------------------------------------------
C17_PendingPartiesRegistered ==
    \A i \in DOMAIN messages :
        /\ user_exists(users, messages[i].sender)
        /\ user_exists(users, messages[i].recipient)

\* A message to bob is pending; the send request that stored it overlapped
\* the register request that registered bob.
C17_Witness ==
    \E t \in Threads : \E u \in Threads :
        /\ Done(t, "send") /\ result[t].status = 200 /\ req[t].recipient = "bob"
        /\ Done(u, "register") /\ result[u].status = 200 /\ req[u].username = "bob"
        /\ Pending(messages, "bob") # {}

\* ------------------------------------------------------------------------
\* C18: in every state, every message a send has stored is either in the
\* messages table and was returned by no fetch, or is not in the table and
\* was returned by exactly one fetch.
\* ------------------------------------------------------------------------
C18_MessageConservation ==
    \A i \in DOMAIN ledger :
        \/ ledger[i].got = 0 /\ ledger[i].id \in Ids(messages)
        \/ ledger[i].got = 1 /\ ledger[i].id \notin Ids(messages)

\* A fetch returned a message while a send to the same mailbox was running;
\* the message of that send was stored after the fetch and is pending.
C18_Witness ==
    \E t \in Threads : \E u \in Threads :
        /\ FetchedOk(t) /\ rows[t] # <<>>
        /\ Done(u, "send") /\ result[u].status = 200
        /\ req[u].recipient = req[t].recipient
        /\ t \in interf[u]
        /\ Pending(messages, req[t].recipient) # {}
        /\ Len(ledger) = 2

\* ------------------------------------------------------------------------
\* C19: fetch_messages returns and deletes only rows whose recipient is the
\* one of the request, and leaves the rows of every other recipient, the id
\* counter and the users table unchanged; a store_message that succeeds
\* appends exactly one row, with the sender, recipient and payload of the
\* request, and changes no other row and not the users table.
\* ------------------------------------------------------------------------
\* This step is the locked helper store_message of thread t.
StoreStep(t) == pc[t] = "send_store" /\ pc'[t] = "done"

OtherMailboxesUnchanged(r) ==
    \A o \in Names \ {r} :
        SelectByRecipient(messages', o) = SelectByRecipient(messages, o)

C19_FetchAndSendFrame ==
    [][\A t \in Threads :
          /\ FetchStep(t) =>
                 /\ \A i \in DOMAIN rows'[t] : rows'[t][i].recipient = req[t].recipient
                 /\ Range(messages) \ Range(messages') \subseteq Range(rows'[t])
                 /\ Range(messages') \subseteq Range(messages)
                 /\ OtherMailboxesUnchanged(req[t].recipient)
                 /\ users' = users /\ seq' = seq
          /\ (StoreStep(t) /\ result'[t].status = 200) =>
                 /\ Len(messages') = Len(messages) + 1
                 /\ SubSeq(messages', 1, Len(messages)) = messages
                 /\ LET m == messages'[Len(messages')]
                    IN  /\ m.sender = req[t].sender
                        /\ m.recipient = req[t].recipient
                        /\ m.encrypted = req[t].encrypted
                 /\ OtherMailboxesUnchanged(req[t].recipient)
                 /\ users' = users]_vars

\* A fetch for alice returned a message while a message for bob is pending.
C19_Witness ==
    \E t \in Threads :
        /\ FetchedOk(t) /\ req[t].recipient = "alice" /\ rows[t] # <<>>
        /\ Pending(messages, "bob") # {}
        /\ Pending(messages, "alice") = {}

====
